---------------------------- MODULE Spec2Model ----------------------------
(***************************************************************************)
(* Model of the two ABIProvider generators of RuneLabsxyz/attestations:    *)
(*   - crates/attestation-derive         (#[derive(Attestation)], syn)     *)
(*   - crates/cairo-attestation-plugin   (MacroPlugin, Cairo syntax tree)  *)
(*                                                                         *)
(* A definition in the source text is one value `input`; each integration  *)
(* reads it through its own front end (syn's DeriveInput, Cairo's          *)
(* ModuleItem).  Generated code is modelled by the values that fill the    *)
(* holes of the emission template; an integer literal is the pair of its   *)
(* value and its suffix (quote! writes 32u32 and 2usize, format! writes    *)
(* 32 and 2).                                                              *)
(***************************************************************************)
EXTENDS Integers, Sequences, FiniteSets, TLC

VARIABLES
    input,        \* the definition handed to the integrations
    derive_out,   \* what derive_attestation returned for input
    plugin_out,   \* what AttestationPlugin::generate_code returned for input
    ty,           \* a type expression handed to the classifiers
    derive_info,  \* what get_type_info returned for ty
    cairo_info,   \* what get_cairo_type_info returned for ty
    first,        \* an earlier invocation (host, input, output), kept by the observer
    last          \* the latest invocation (host, input, output)

vars == <<input, derive_out, plugin_out, ty, derive_info, cairo_info, first, last>>

-----------------------------------------------------------------------------
(* Bounds *)

\* longest member list of a struct
MaxFields == 2

\* longest member list of a struct in the runs of several invocations
RunFields == 1

-----------------------------------------------------------------------------
(* Type expressions *)

\* the simple names both classifiers list
SimpleNames ==
    {"ContractAddress", "felt252", "u8", "u16", "u32", "u64", "u128", "u256",
     "bool", "ByteArray"}

ContainerNames == {"Array", "Span"}

\* a user type and a container neither classifier lists
OtherNames == {"MyStruct", "Option"}

Idents == SimpleNames \cup ContainerNames \cup OtherNames

\* one path segment: an identifier, with or without generic arguments
Segment(id, args) == [ident |-> id, args |-> args]

\* a path type of one or two segments, e.g. u8, Array<felt252>, core::u8
PathType(segs) == [shape |-> "path", segments |-> segs]

\* a type that is no path, e.g. (u8, u8)
TupleType == [shape |-> "tuple", segments |-> <<>>]

TypeExprs ==
    {PathType(<<Segment(id, a)>>) : id \in Idents, a \in BOOLEAN}
    \cup {PathType(<<Segment("core", FALSE), Segment(id, a)>>) :
              id \in Idents, a \in BOOLEAN}
    \cup {TupleType}

\* the text of one segment
SegmentText(seg) == seg.ident \o (IF seg.args THEN "<felt252>" ELSE "")

RECURSIVE PathText(_)
PathText(segs) ==
    IF Len(segs) = 0 THEN ""
    ELSE IF Len(segs) = 1 THEN SegmentText(segs[1])
    ELSE SegmentText(segs[1]) \o "::" \o PathText(Tail(segs))

\* type_clause.ty(db).as_syntax_node().get_text_without_trivia(db)
TypeText(t) == IF t.shape = "path" THEN PathText(t.segments) ELSE "(u8, u8)"

\* str::starts_with
StartsWith(s, p) == Len(s) >= Len(p) /\ SubSeq(s, 1, Len(p)) = p

-----------------------------------------------------------------------------
(* The classifiers.  A result is <<type name, size in bytes>>. *)

\* get_type_info with the u128 row giving the width of u64
get_type_info_u128_as_u64(t) ==
    IF t.shape = "path" /\ Len(t.segments) > 0
    THEN LET id == t.segments[Len(t.segments)].ident IN
         CASE id = "ContractAddress" -> <<"ContractAddress", 32>>
           [] id = "felt252" -> <<"felt252", 32>>
           [] id = "u8" -> <<"u8", 1>>
           [] id = "u16" -> <<"u16", 2>>
           [] id = "u32" -> <<"u32", 4>>
           [] id = "u64" -> <<"u64", 8>>
           [] id = "u128" -> <<"u128", 8>>
           [] id = "u256" -> <<"u256", 32>>
           [] id = "bool" -> <<"bool", 1>>
           [] id = "ByteArray" -> <<"ByteArray", 0>>
           [] id = "Array" -> <<"Array", 0>>
           [] id = "Span" -> <<"Span", 0>>
           [] OTHER -> <<"unknown", 0>>
    ELSE <<"unknown", 0>>

\* get_type_info giving an unlisted type the width of a felt252
get_type_info_unknown_32(t) ==
    IF t.shape = "path" /\ Len(t.segments) > 0
    THEN LET id == t.segments[Len(t.segments)].ident IN
         CASE id = "ContractAddress" -> <<"ContractAddress", 32>>
           [] id = "felt252" -> <<"felt252", 32>>
           [] id = "u8" -> <<"u8", 1>>
           [] id = "u16" -> <<"u16", 2>>
           [] id = "u32" -> <<"u32", 4>>
           [] id = "u64" -> <<"u64", 8>>
           [] id = "u128" -> <<"u128", 16>>
           [] id = "u256" -> <<"u256", 32>>
           [] id = "bool" -> <<"bool", 1>>
           [] id = "ByteArray" -> <<"ByteArray", 0>>
           [] id = "Array" -> <<"Array", 0>>
           [] id = "Span" -> <<"Span", 0>>
           [] OTHER -> <<"unknown", 32>>
    ELSE <<"unknown", 32>>

\* get_type_info: the last path segment's identifier decides, generic
\* arguments and a qualifying path are ignored; a type that is no path, or a
\* path without segments, is "unknown"
get_type_info(t) ==
    IF t.shape = "path" /\ Len(t.segments) > 0
    THEN LET id == t.segments[Len(t.segments)].ident IN
         CASE id = "ContractAddress" -> <<"ContractAddress", 32>>
           [] id = "felt252" -> <<"felt252", 32>>
           [] id = "u8" -> <<"u8", 1>>
           [] id = "u16" -> <<"u16", 2>>
           [] id = "u32" -> <<"u32", 4>>
           [] id = "u64" -> <<"u64", 8>>
           [] id = "u128" -> <<"u128", 16>>
           [] id = "u256" -> <<"u256", 32>>
           [] id = "bool" -> <<"bool", 1>>
           [] id = "ByteArray" -> <<"ByteArray", 0>>
           [] id = "Array" -> <<"Array", 0>>
           [] id = "Span" -> <<"Span", 0>>
           [] OTHER -> <<"unknown", 0>>
    ELSE <<"unknown", 0>>

\* get_cairo_type_info with the u64 row giving the width of u32
get_cairo_type_info_u64_as_u32(t) ==
    LET type_text == TypeText(t) IN
    CASE type_text = "ContractAddress" -> <<"ContractAddress", 32>>
      [] type_text = "felt252" -> <<"felt252", 32>>
      [] type_text = "u8" -> <<"u8", 1>>
      [] type_text = "u16" -> <<"u16", 2>>
      [] type_text = "u32" -> <<"u32", 4>>
      [] type_text = "u64" -> <<"u64", 4>>
      [] type_text = "u128" -> <<"u128", 16>>
      [] type_text = "u256" -> <<"u256", 32>>
      [] type_text = "bool" -> <<"bool", 1>>
      [] type_text = "ByteArray" -> <<"ByteArray", 0>>
      [] OTHER ->
           IF StartsWith(type_text, "Array<") THEN <<"Array", 0>>
           ELSE IF StartsWith(type_text, "Span<") THEN <<"Span", 0>>
           ELSE <<type_text, 0>>

\* get_cairo_type_info: the whole text decides; the arms are tried in order
get_cairo_type_info(t) ==
    LET type_text == TypeText(t) IN
    CASE type_text = "ContractAddress" -> <<"ContractAddress", 32>>
      [] type_text = "felt252" -> <<"felt252", 32>>
      [] type_text = "u8" -> <<"u8", 1>>
      [] type_text = "u16" -> <<"u16", 2>>
      [] type_text = "u32" -> <<"u32", 4>>
      [] type_text = "u64" -> <<"u64", 8>>
      [] type_text = "u128" -> <<"u128", 16>>
      [] type_text = "u256" -> <<"u256", 32>>
      [] type_text = "bool" -> <<"bool", 1>>
      [] type_text = "ByteArray" -> <<"ByteArray", 0>>
      [] OTHER ->
           IF StartsWith(type_text, "Array<") THEN <<"Array", 0>>
           ELSE IF StartsWith(type_text, "Span<") THEN <<"Span", 0>>
           ELSE <<type_text, 0>>

\* no classifier has run
NoInfo == <<"", 0>>

-----------------------------------------------------------------------------
(* Definitions in the source text *)

StructNames == {"TestStruct", "Other"}

FieldNames == {"field1", "field2"}

\* the member types of the modelled structs: three fixed widths, a variable
\* length type, a container, an unlisted type and a qualified path
FieldTypes ==
    {PathType(<<Segment("ContractAddress", FALSE)>>),
     PathType(<<Segment("u64", FALSE)>>),
     PathType(<<Segment("bool", FALSE)>>),
     PathType(<<Segment("ByteArray", FALSE)>>),
     PathType(<<Segment("Array", TRUE)>>),
     PathType(<<Segment("MyStruct", FALSE)>>),
     PathType(<<Segment("core", FALSE), Segment("u8", FALSE)>>)}

\* an element of a member list: a member `name: ty`, or an element that is
\* no Member::Member (the Cairo parser's node for a member it could not read)
NamedMember(n, t) == [kind |-> "Member", name |-> n, ty |-> t]

MissingMember == [kind |-> "Missing", name |-> "", ty |-> TupleType]

Members == {NamedMember(n, t) : n \in FieldNames, t \in FieldTypes} \cup {MissingMember}

SeqsUpTo(S, n) == UNION {[1..k -> S] : k \in 0..n}

\* an attribute: its name and its arguments, if it has any
Attr(n, has_args, args) == [attr |-> n, has_args |-> has_args, arg_list |-> args]

AttrLists ==
    {<<>>,
     <<Attr("derive", TRUE, <<"Drop", "Serde">>)>>,
     <<Attr("derive", TRUE, <<"Drop", "Serde", "Clone", "Attestation">>)>>,
     <<Attr("derive", TRUE, <<"Drop">>), Attr("derive", TRUE, <<"Attestation">>)>>,
     <<Attr("derive", FALSE, <<>>), Attr("doc", TRUE, <<"Attestation">>)>>}

\* item: struct or enum; body: the shape of a struct's field list
Definition(item, name, attrs, body, members) ==
    [item |-> item, name |-> name, attrs |-> attrs, body |-> body, members |-> members]

DefinitionsUpTo(n) ==
    {Definition("struct", s, a, "named", m) :
         s \in StructNames, a \in AttrLists, m \in SeqsUpTo(Members, n)}
    \cup {Definition("struct", s, a, b, <<>>) :
              s \in StructNames, a \in AttrLists, b \in {"unnamed", "unit"}}
    \cup {Definition("enum", s, a, "variants", <<>>) :
              s \in StructNames, a \in AttrLists}

Definitions == DefinitionsUpTo(MaxFields)

\* the members that are fields (`name: ty`), in declaration order
NamedFields(d) == SelectSeq(d.members, LAMBDA m : m.kind = "Member")

\* what syn parses as a DeriveInput: every member is a field
ParsesAsDeriveInput(d) == \A i \in 1..Len(d.members) : d.members[i].kind = "Member"

\* no integration has run
NotRun == [kind |-> "none"]

-----------------------------------------------------------------------------
(* Literals and entries of the generated code *)

\* quote! of a u32
LitU32(n) == [val |-> n, suffix |-> "u32"]

\* quote! of a usize
LitUsize(n) == [val |-> n, suffix |-> "usize"]

\* format!("{}") of an integer
LitPlain(n) == [val |-> n, suffix |-> ""]

\* fields.append(ABIField { name, field_type, size_bytes });
ABIField(n, type_name, size_lit) ==
    [name |-> n, field_type |-> type_name, size_bytes |-> size_lit]

\* the emission template with its holes filled
ABIProviderImpl(impl_name, of_type, entries, abi_name, total_lit, count_lit, self_type) ==
    [impl_name |-> impl_name,
     provider_of |-> of_type,
     get_abi |-> [fields |-> entries, name |-> abi_name, total_size |-> total_lit],
     get_field_count |-> count_lit,
     serialize_to_array |-> [self |-> self_type]]

\* Iterator::sum::<u32> and `total_size += size_bytes`; a width is at most 32,
\* so the u32 cannot overflow for member lists below 2^27 entries
RECURSIVE SumU32(_)
SumU32(sizes) == IF Len(sizes) = 0 THEN 0 ELSE Head(sizes) + SumU32(Tail(sizes))

-----------------------------------------------------------------------------
(* crates/attestation-derive *)

\* abi_fields appending the entries last field first
abi_fields_reversed(fields) ==
    [i \in 1..Len(fields) |->
        ABIField(fields[Len(fields) + 1 - i].name,
                 get_type_info(fields[Len(fields) + 1 - i].ty)[1],
                 LitU32(get_type_info(fields[Len(fields) + 1 - i].ty)[2]))]

\* fields.iter().map(|field| quote! { fields.append(ABIField { .. }); })
abi_fields(fields) ==
    [i \in 1..Len(fields) |->
        ABIField(fields[i].name,
                 get_type_info(fields[i].ty)[1],
                 LitU32(get_type_info(fields[i].ty)[2]))]

\* total_size_calculation leaving the first field out of the sum
total_size_calculation_skips_first(fields) ==
    SumU32([i \in 1..(IF Len(fields) = 0 THEN 0 ELSE Len(fields) - 1) |->
               get_type_info(fields[i + 1].ty)[2]])

\* fields.iter().map(|field| size_bytes).sum::<u32>()
total_size_calculation(fields) ==
    SumU32([i \in 1..Len(fields) |-> get_type_info(fields[i].ty)[2]])

\* generate_abi_provider refusing a struct of no fields
generate_abi_provider_rejects_empty(d) ==
    IF d.item = "struct"
    THEN IF d.body = "named" /\ Len(d.members) > 0
         THEN LET fields == d.members
                  field_count == Len(fields)
              IN  [ok |-> TRUE,
                   tokens |-> ABIProviderImpl(d.name \o "ABIProvider", d.name,
                                              abi_fields(fields), d.name,
                                              LitU32(total_size_calculation(fields)),
                                              LitUsize(field_count), d.name)]
         ELSE [ok |-> FALSE, message |-> "Only structs with named fields are supported"]
    ELSE [ok |-> FALSE, message |-> "Only structs are supported"]

\* generate_abi_provider: Ok(tokens) or Err(message)
generate_abi_provider(d) ==
    IF d.item = "struct"
    THEN IF d.body = "named"
         THEN LET fields == d.members
                  field_count == Len(fields)
              IN  [ok |-> TRUE,
                   tokens |-> ABIProviderImpl(d.name \o "ABIProvider", d.name,
                                              abi_fields(fields), d.name,
                                              LitU32(total_size_calculation(fields)),
                                              LitUsize(field_count), d.name)]
         ELSE [ok |-> FALSE, message |-> "Only structs with named fields are supported"]
    ELSE [ok |-> FALSE, message |-> "Only structs are supported"]

\* derive_attestation: the tokens, or the error as a compile error
derive_attestation(d) ==
    LET r == generate_abi_provider(d) IN
    IF r.ok
    THEN [kind |-> "tokens", tokens |-> r.tokens, errors |-> <<>>]
    ELSE [kind |-> "compile_error", errors |-> <<r.message>>]

-----------------------------------------------------------------------------
(* crates/cairo-attestation-plugin *)

\* get_derive_attr_list: the arguments of a `derive` attribute that has some
get_derive_attr_list(attr) ==
    IF attr.attr # "derive" THEN [some |-> FALSE, list |-> <<>>]
    ELSE IF ~attr.has_args THEN [some |-> FALSE, list |-> <<>>]
    ELSE [some |-> TRUE, list |-> attr.arg_list]

\* has_attestation_derive reading the arguments of any attribute
has_attestation_derive_any_attr(d) ==
    \E i \in 1..Len(d.attrs) :
        /\ d.attrs[i].has_args
        /\ \E j \in 1..Len(d.attrs[i].arg_list) : d.attrs[i].arg_list[j] = "Attestation"

\* has_attestation_derive: some derive attribute lists Attestation
has_attestation_derive(d) ==
    \E i \in 1..Len(d.attrs) :
        LET attr_list == get_derive_attr_list(d.attrs[i]) IN
        /\ attr_list.some
        /\ \E j \in 1..Len(attr_list.list) : attr_list.list[j] = "Attestation"

\* PluginDiagnostic
PluginDiagnostic(ptr, message, severity) ==
    [stable_ptr |-> ptr, message |-> message, severity |-> severity]

\* the members the loop of generate_abi_provider_for_struct enters
MemberAsts(members) == SelectSeq(members, LAMBDA m : m.kind = "Member")

\* generate_abi_provider_for_struct: Ok(code) or Err(diagnostic)
generate_abi_provider_for_struct(d) ==
    IF d.body # "named"
    THEN [ok |-> FALSE,
          diagnostic |-> PluginDiagnostic(d.name,
                                          "Only structs with named members are supported",
                                          "Error")]
    ELSE LET members == d.members
             field_count == Len(members)
             asts == MemberAsts(members)
             field_definitions ==
                 [i \in 1..Len(asts) |->
                     ABIField(asts[i].name,
                              get_cairo_type_info(asts[i].ty)[1],
                              LitPlain(get_cairo_type_info(asts[i].ty)[2]))]
             total_size ==
                 SumU32([i \in 1..Len(asts) |-> get_cairo_type_info(asts[i].ty)[2]])
         IN  [ok |-> TRUE,
              code |-> ABIProviderImpl(d.name \o "ABIProvider", d.name,
                                       field_definitions, d.name,
                                       LitPlain(total_size), LitPlain(field_count),
                                       d.name)]

\* PluginResult
PluginResult(code, diagnostics, remove_original_item) ==
    [kind |-> "result", code |-> code, diagnostics |-> diagnostics,
     remove_original_item |-> remove_original_item]

\* Option<PluginGeneratedFile>::None
NoFile == [some |-> FALSE]

\* Some(PluginGeneratedFile { name, content, code_mappings, aux_data })
PluginGeneratedFile(name, content) ==
    [some |-> TRUE, name |-> name, content |-> content,
     code_mappings |-> <<>>, aux_data |-> "None"]

\* PluginResult::default()
PluginResultDefault == PluginResult(NoFile, <<>>, FALSE)

\* generate_code keeping the last generated file and returning it again for a
\* struct of the same name and number of members
generate_code_cached(d) ==
    IF /\ last.host = "plugin"
       /\ last.output.code.some
       /\ last.input.name = d.name
       /\ Len(last.input.members) = Len(d.members)
    THEN last.output
    ELSE IF d.item = "struct"
    THEN IF ~has_attestation_derive(d)
         THEN PluginResultDefault
         ELSE LET r == generate_abi_provider_for_struct(d) IN
              IF r.ok
              THEN PluginResult(PluginGeneratedFile(d.name \o "_abi_provider.cairo", r.code),
                                <<>>, FALSE)
              ELSE PluginResult(NoFile, <<r.diagnostic>>, FALSE)
    ELSE PluginResultDefault

\* AttestationPlugin::generate_code
generate_code(d) ==
    IF d.item = "struct"
    THEN IF ~has_attestation_derive(d)
         THEN PluginResultDefault
         ELSE LET r == generate_abi_provider_for_struct(d) IN
              IF r.ok
              THEN PluginResult(PluginGeneratedFile(d.name \o "_abi_provider.cairo", r.code),
                                <<>>, FALSE)
              ELSE PluginResult(NoFile, <<r.diagnostic>>, FALSE)
    ELSE PluginResultDefault

-----------------------------------------------------------------------------
(* Spec: one definition, handed to each integration once *)

\* an invocation the observer has recorded: none yet
NoCall == [host |-> "none"]

Init ==
    /\ input \in Definitions
    /\ derive_out = NotRun
    /\ plugin_out = NotRun
    /\ ty = TupleType
    /\ derive_info = NoInfo
    /\ cairo_info = NoInfo
    /\ first = NoCall
    /\ last = NoCall

\* the compiler expands #[derive(Attestation)] on an item it has parsed
DeriveAttestation ==
    /\ derive_out = NotRun
    /\ ParsesAsDeriveInput(input)
    /\ derive_out' = derive_attestation(input)
    /\ UNCHANGED <<input, plugin_out, ty, derive_info, cairo_info, first, last>>

\* the Cairo compiler hands the item to the plugin
GenerateCode ==
    /\ plugin_out = NotRun
    /\ plugin_out' = generate_code(input)
    /\ UNCHANGED <<input, derive_out, ty, derive_info, cairo_info, first, last>>

Next == DeriveAttestation \/ GenerateCode

Spec == Init /\ [][Next]_vars

-----------------------------------------------------------------------------
(* SpecClassify: one type expression, handed to each classifier once *)

InitClassify ==
    /\ ty \in TypeExprs
    /\ derive_info = NoInfo
    /\ cairo_info = NoInfo
    /\ input = Definition("struct", "TestStruct", <<>>, "named", <<>>)
    /\ derive_out = NotRun
    /\ plugin_out = NotRun
    /\ first = NoCall
    /\ last = NoCall

GetTypeInfo ==
    /\ derive_info = NoInfo
    /\ derive_info' = get_type_info(ty)
    /\ UNCHANGED <<input, derive_out, plugin_out, ty, cairo_info, first, last>>

GetCairoTypeInfo ==
    /\ cairo_info = NoInfo
    /\ cairo_info' = get_cairo_type_info(ty)
    /\ UNCHANGED <<input, derive_out, plugin_out, ty, derive_info, first, last>>

NextClassify == GetTypeInfo \/ GetCairoTypeInfo

SpecClassify == InitClassify /\ [][NextClassify]_vars

-----------------------------------------------------------------------------
(* SpecRuns: a compilation run, the integrations invoked on one definition *)
(* after the other; the observer keeps one earlier invocation to compare   *)
(* with the latest one                                                     *)

\* the members of the definitions of a run: a fixed width, an unlisted type
\* and an element that is no member
RunMembers ==
    {NamedMember("field1", PathType(<<Segment("ContractAddress", FALSE)>>)),
     NamedMember("field2", PathType(<<Segment("MyStruct", FALSE)>>)),
     MissingMember}

RunAttrs == <<Attr("derive", TRUE, <<"Drop", "Serde", "Clone", "Attestation">>)>>

RunDefinitions ==
    {Definition("struct", "TestStruct", RunAttrs, "named", m) :
         m \in SeqsUpTo(RunMembers, RunFields)}
    \cup {Definition("struct", "TestStruct", RunAttrs, b, <<>>) : b \in {"unnamed", "unit"}}
    \cup {Definition("enum", "TestStruct", RunAttrs, "variants", <<>>)}

\* a recorded invocation; later: how many invocations followed it
Call(host, d, out) == [host |-> host, input |-> d, output |-> out, later |-> "none"]

Followed(c) ==
    IF c.host = "none" THEN c
    ELSE [c EXCEPT !.later = IF c.later = "none" THEN "one" ELSE "more"]

InitRuns ==
    /\ first = NoCall
    /\ last = NoCall
    /\ input = Definition("struct", "TestStruct", <<>>, "named", <<>>)
    /\ derive_out = NotRun
    /\ plugin_out = NotRun
    /\ ty = TupleType
    /\ derive_info = NoInfo
    /\ cairo_info = NoInfo

InvokeDerive ==
    \E d \in RunDefinitions :
        /\ ParsesAsDeriveInput(d)
        /\ last' = Call("derive", d, derive_attestation(d))
        /\ first' = Followed(first)
        /\ UNCHANGED <<input, derive_out, plugin_out, ty, derive_info, cairo_info>>

InvokePlugin ==
    \E d \in RunDefinitions :
        /\ last' = Call("plugin", d, generate_code(d))
        /\ first' = Followed(first)
        /\ UNCHANGED <<input, derive_out, plugin_out, ty, derive_info, cairo_info>>

\* the observer keeps the latest invocation
Remember ==
    /\ last # NoCall
    /\ first' = last
    /\ UNCHANGED <<input, derive_out, plugin_out, ty, derive_info, cairo_info, last>>

NextRuns == InvokeDerive \/ InvokePlugin \/ Remember

SpecRuns == InitRuns /\ [][NextRuns]_vars

-----------------------------------------------------------------------------
(* What the claims speak of *)

\* the byte width the lookup table gives a type name; 0 for ByteArray, Array,
\* Span and every name the table does not list
TableWidth(type_name) ==
    CASE type_name \in {"ContractAddress", "felt252", "u256"} -> 32
      [] type_name = "u128" -> 16
      [] type_name = "u64" -> 8
      [] type_name = "u32" -> 4
      [] type_name = "u16" -> 2
      [] type_name \in {"u8", "bool"} -> 1
      [] OTHER -> 0

\* the sum of a sequence of numbers, from its end
RECURSIVE Total(_)
Total(ws) == IF ws = <<>> THEN 0 ELSE Total(SubSeq(ws, 1, Len(ws) - 1)) + ws[Len(ws)]

DeriveGenerated == derive_out # NotRun /\ derive_out.kind = "tokens"

PluginGenerated == plugin_out # NotRun /\ plugin_out.code.some

DeriveImpl == derive_out.tokens

PluginImpl == plugin_out.code.content

\* the definition is a struct with a named field list
IsNamedRecord(d) == d.item = "struct" /\ d.body = "named"

\* the definition carries #[derive(.., Attestation, ..)]
CarriesMarker(d) ==
    \E i \in 1..Len(d.attrs) :
        /\ d.attrs[i].attr = "derive"
        /\ d.attrs[i].has_args
        /\ \E j \in 1..Len(d.attrs[i].arg_list) : d.attrs[i].arg_list[j] = "Attestation"

\* the three operations, each bound to the record's name
IsCompleteFor(impl, d) ==
    /\ impl.impl_name = d.name \o "ABIProvider"
    /\ impl.provider_of = d.name
    /\ impl.get_abi.name = d.name
    /\ Len(impl.get_abi.fields) = Len(NamedFields(d))
    /\ impl.get_abi.total_size.val >= 0
    /\ impl.get_field_count.val >= 0
    /\ impl.serialize_to_array.self = d.name

-----------------------------------------------------------------------------
(* C1 *)

\* the table widths of the types of the record's fields, as the token-based
\* integration classifies them
DeriveWidths ==
    [i \in 1..Len(NamedFields(input)) |->
        TableWidth(get_type_info(NamedFields(input)[i].ty)[1])]

\* the same, as the syntax-tree integration classifies them
PluginWidths ==
    [i \in 1..Len(NamedFields(input)) |->
        TableWidth(get_cairo_type_info(NamedFields(input)[i].ty)[1])]

\* C1: the total_size of a generated descriptor is the sum, over all fields of
\* the record, of the byte width the table gives each field's type; a field of
\* a variable-length or unlisted type adds 0, and no fields give 0.
C1_TotalSizeIsSumOfWidths ==
    /\ DeriveGenerated => DeriveImpl.get_abi.total_size.val = Total(DeriveWidths)
    /\ PluginGenerated => PluginImpl.get_abi.total_size.val = Total(PluginWidths)

\* two fields of different fixed widths, summed by both integrations
C1_Witness ==
    /\ DeriveGenerated
    /\ PluginGenerated
    /\ Len(NamedFields(input)) = 2
    /\ DeriveImpl.get_abi.total_size.val = 40
    /\ PluginImpl.get_abi.total_size.val = 40

-----------------------------------------------------------------------------
(* C2 *)

\* entry i of the descriptor is field i of the record, as classify(_) reads it
EntriesFollowFields(entries, fields, classify(_)) ==
    /\ Len(entries) = Len(fields)
    /\ \A i \in 1..Len(fields) :
          /\ entries[i].name = fields[i].name
          /\ entries[i].field_type = classify(fields[i].ty)[1]
          /\ entries[i].size_bytes.val = classify(fields[i].ty)[2]

\* C2: a record with N named fields gives a descriptor of exactly N entries,
\* entry i carrying the name and the classification of field i; nothing is
\* reordered, dropped or merged.
C2_EntriesInDeclarationOrder ==
    /\ DeriveGenerated =>
          EntriesFollowFields(DeriveImpl.get_abi.fields, NamedFields(input), get_type_info)
    /\ PluginGenerated =>
          EntriesFollowFields(PluginImpl.get_abi.fields, NamedFields(input),
                              get_cairo_type_info)

\* two fields of one name and different types, emitted by both integrations
C2_Witness ==
    /\ DeriveGenerated
    /\ PluginGenerated
    /\ Len(input.members) = 2
    /\ input.members[1].name = input.members[2].name
    /\ input.members[1].ty # input.members[2].ty
    /\ Len(DeriveImpl.get_abi.fields) = 2
    /\ Len(PluginImpl.get_abi.fields) = 2

-----------------------------------------------------------------------------
(* C3 *)

\* C3: in every generation that succeeds, the literal get_field_count()
\* returns is the number of entries get_abi() appends.
C3_FieldCountIsNumberOfEntries ==
    /\ DeriveGenerated =>
          DeriveImpl.get_field_count.val = Len(DeriveImpl.get_abi.fields)
    /\ PluginGenerated =>
          PluginImpl.get_field_count.val = Len(PluginImpl.get_abi.fields)

-----------------------------------------------------------------------------
(* C4 *)

\* C4: a definition that is no record with named fields gives, through either
\* integration, no generated text and exactly one Error diagnostic.
C4_IneligibleInputGivesOneError ==
    ~IsNamedRecord(input) =>
        /\ derive_out # NotRun =>
              /\ derive_out.kind = "compile_error"
              /\ Len(derive_out.errors) = 1
        /\ (plugin_out # NotRun /\ CarriesMarker(input)) =>
              /\ ~plugin_out.code.some
              /\ Len(plugin_out.diagnostics) = 1
              /\ plugin_out.diagnostics[1].severity = "Error"

-----------------------------------------------------------------------------
(* C7 *)

\* C7: every record with named fields, a record of no fields and a record of
\* unlisted field types included, gives a complete implementation and no
\* diagnostic; an integration returns a whole implementation or none.
C7_NamedRecordAlwaysGenerates ==
    /\ (derive_out # NotRun /\ IsNamedRecord(input)) =>
          /\ derive_out.kind = "tokens"
          /\ derive_out.errors = <<>>
          /\ IsCompleteFor(DeriveImpl, input)
    /\ (plugin_out # NotRun /\ IsNamedRecord(input) /\ CarriesMarker(input)) =>
          /\ plugin_out.code.some
          /\ plugin_out.diagnostics = <<>>
          /\ IsCompleteFor(PluginImpl, input)
    /\ derive_out # NotRun => (derive_out.kind = "tokens") # (derive_out.errors # <<>>)
    /\ plugin_out # NotRun => ~(plugin_out.code.some /\ plugin_out.diagnostics # <<>>)

\* a record of no fields, generated by both integrations
C7_Witness ==
    /\ IsNamedRecord(input)
    /\ input.members = <<>>
    /\ DeriveGenerated
    /\ PluginGenerated
    /\ DeriveImpl.get_field_count.val = 0
    /\ PluginImpl.get_abi.fields = <<>>

-----------------------------------------------------------------------------
(* C8 *)

\* C8: generate_code does nothing for a struct without the marker; with the
\* marker it returns one file named after the record and no diagnostics, or
\* no file and exactly one diagnostic; it never removes the original item.
C8_PluginOutcomes ==
    plugin_out # NotRun =>
        /\ plugin_out.remove_original_item = FALSE
        /\ (input.item = "struct" /\ ~CarriesMarker(input)) =>
              /\ ~plugin_out.code.some
              /\ plugin_out.diagnostics = <<>>
        /\ (input.item = "struct" /\ CarriesMarker(input)) =>
              \/ /\ plugin_out.code.some
                 /\ plugin_out.code.name = input.name \o "_abi_provider.cairo"
                 /\ plugin_out.diagnostics = <<>>
                 /\ IsNamedRecord(input)
              \/ /\ ~plugin_out.code.some
                 /\ Len(plugin_out.diagnostics) = 1
                 /\ ~IsNamedRecord(input)

\* a struct whose only `Attestation` is the argument of another attribute:
\* the plugin ran and did nothing
C8_Witness ==
    /\ plugin_out # NotRun
    /\ input.item = "struct"
    /\ Len(input.attrs) = 2
    /\ ~CarriesMarker(input)
    /\ ~plugin_out.code.some
    /\ plugin_out.diagnostics = <<>>

-----------------------------------------------------------------------------
(* C10 *)

\* a single name: a listed simple name, or any other name with or without
\* generic arguments
IsUnqualified(t) ==
    /\ t.shape = "path"
    /\ Len(t.segments) = 1
    /\ t.segments[1].ident \in SimpleNames => ~t.segments[1].args

\* C10: on a field list of unqualified types the two integrations give every
\* field the same byte width and embed the same total_size and field count.
C10_IntegrationsAgreeOnLayout ==
    (/\ DeriveGenerated
     /\ PluginGenerated
     /\ \A i \in 1..Len(input.members) : IsUnqualified(input.members[i].ty)) =>
        /\ Len(DeriveImpl.get_abi.fields) = Len(PluginImpl.get_abi.fields)
        /\ \A i \in 1..Len(DeriveImpl.get_abi.fields) :
              DeriveImpl.get_abi.fields[i].size_bytes.val
                  = PluginImpl.get_abi.fields[i].size_bytes.val
        /\ DeriveImpl.get_abi.total_size.val = PluginImpl.get_abi.total_size.val
        /\ DeriveImpl.get_field_count.val = PluginImpl.get_field_count.val

\* a u64 and a container, laid out by both integrations
C10_Witness ==
    /\ DeriveGenerated
    /\ PluginGenerated
    /\ Len(input.members) = 2
    /\ \A i \in 1..2 : IsUnqualified(input.members[i].ty)
    /\ input.members[1].ty.segments[1].ident = "u64"
    /\ input.members[2].ty.segments[1].ident = "Array"
    /\ PluginImpl.get_abi.total_size.val = 8

-----------------------------------------------------------------------------
(* C5 *)

\* one of the table's simple names, written alone
IsSimpleName(t) ==
    /\ t.shape = "path"
    /\ Len(t.segments) = 1
    /\ t.segments[1].ident \in SimpleNames
    /\ ~t.segments[1].args

\* Array<..> or Span<..>
IsContainer(t) ==
    /\ t.shape = "path"
    /\ Len(t.segments) = 1
    /\ t.segments[1].ident \in ContainerNames
    /\ t.segments[1].args

\* the row of the lookup table for a simple name or a container
TableRow(t) == <<t.segments[1].ident, TableWidth(t.segments[1].ident)>>

\* C5: for every type expression of the lookup table both classifiers return
\* the table's tag and byte width; Array<..> and Span<..> are (Array, 0) and
\* (Span, 0).
C5_ClassifiersFollowTable ==
    (IsSimpleName(ty) \/ IsContainer(ty)) =>
        /\ derive_info # NoInfo => derive_info = TableRow(ty)
        /\ cairo_info # NoInfo => cairo_info = TableRow(ty)

\* u128 classified by both classifiers
C5_Witness ==
    /\ IsSimpleName(ty)
    /\ derive_info = <<"u128", 16>>
    /\ cairo_info = <<"u128", 16>>

-----------------------------------------------------------------------------
(* C6 *)

\* a type that is no path, or a path whose last identifier is none of the
\* listed names: neither classifier matches it to a row
MatchesNoRow(t) ==
    \/ t.shape # "path"
    \/ t.segments[Len(t.segments)].ident \notin (SimpleNames \cup ContainerNames)

-----------------------------------------------------------------------------
(* C9 *)

=============================================================================
